---- MODULE Spec2Model ----
(***************************************************************************)
(* NotePilot (src/app.py): the session store, the upload / chat / quiz     *)
(* handlers and the pure text functions they call.                         *)
(*                                                                         *)
(* A Python str is a sequence of one-character strings; a list is a        *)
(* sequence; a dict is a function on its keys.                             *)
(***************************************************************************)
EXTENDS Integers, Sequences, FiniteSets, TLC

(***************************************************************************)
(* Python str methods                                                      *)
(***************************************************************************)
LowerSeq == <<"a","b","c","d","e","f","g","h","i","j","k","l","m",
              "n","o","p","q","r","s","t","u","v","w","x","y","z">>
UpperSeq == <<"A","B","C","D","E","F","G","H","I","J","K","L","M",
              "N","O","P","Q","R","S","T","U","V","W","X","Y","Z">>
DigitSeq == <<"0","1","2","3","4","5","6","7","8","9">>

Range(f) == {f[i] : i \in DOMAIN f}
LowerChars == Range(LowerSeq)
UpperChars == Range(UpperSeq)
DigitChars == Range(DigitSeq)
WS == {" ", "\n", "\t"}

MinOf(S) == CHOOSE i \in S : \A j \in S : i <= j

upper_char(c) ==
  IF c \in LowerChars THEN UpperSeq[CHOOSE i \in 1..26 : LowerSeq[i] = c] ELSE c
lower_char(c) ==
  IF c \in UpperChars THEN LowerSeq[CHOOSE i \in 1..26 : UpperSeq[i] = c] ELSE c
upper_not(s) == s
upper(s) == [i \in 1..Len(s) |-> upper_char(s[i])]
lower(s) == [i \in 1..Len(s) |-> lower_char(s[i])]

RECURSIVE lstrip(_)
lstrip(s) == IF s # <<>> /\ Head(s) \in WS THEN lstrip(Tail(s)) ELSE s
RECURSIVE rstrip(_)
rstrip(s) ==
  IF s # <<>> /\ s[Len(s)] \in WS THEN rstrip(SubSeq(s, 1, Len(s) - 1)) ELSE s
strip(s) == rstrip(lstrip(s))

\* s[i:] of Python, i >= 0
slice_from(s, i) == SubSeq(s, i + 1, Len(s))
\* s[:n] of Python, n >= 0
slice_to(s, n) == SubSeq(s, 1, IF n < Len(s) THEN n ELSE Len(s))

match_at(s, p, i) ==
  i >= 1 /\ i + Len(p) - 1 <= Len(s) /\ \A k \in 1..Len(p) : s[i + k - 1] = p[k]
startswith(s, p) == match_at(s, p, 1)
\* the first index >= from at which p occurs in s, 0 when there is none
find(s, p, from) ==
  LET hits == {i \in from..(Len(s) - Len(p) + 1) : match_at(s, p, i)}
  IN IF hits = {} THEN 0 ELSE MinOf(hits)
contains(s, p) == \E i \in 1..(Len(s) - Len(p) + 1) : match_at(s, p, i)
count_char(s, c) == Cardinality({i \in 1..Len(s) : s[i] = c})

\* s.split(sep)
RECURSIVE split(_, _)
split(s, sep) ==
  LET i == find(s, sep, 1)
  IN IF i = 0 THEN <<s>>
     ELSE <<SubSeq(s, 1, i - 1)>> \o split(slice_from(s, i + Len(sep) - 1), sep)
\* s.split(sep, 1)
split1(s, sep) ==
  LET i == find(s, sep, 1)
  IN IF i = 0 THEN <<s>>
     ELSE <<SubSeq(s, 1, i - 1), slice_from(s, i + Len(sep) - 1)>>

\* s.split(): the maximal runs of non-whitespace of s[lo..hi], in order. The
\* range is cut at some whitespace position; which one does not change the
\* result.
RECURSIVE split_range(_, _, _)
split_range(s, lo, hi) ==
  IF lo > hi THEN <<>>
  ELSE LET ws == {m \in lo..hi : s[m] \in WS}
           mid == (lo + hi) \div 2
       IN IF ws = {} THEN <<SubSeq(s, lo, hi)>>
          ELSE LET m == IF \E k \in ws : k >= mid
                        THEN MinOf({k \in ws : k >= mid})
                        ELSE MinOf(ws)
               IN split_range(s, lo, m - 1) \o split_range(s, m + 1, hi)
split_ws(s) == split_range(s, 1, Len(s))

\* sep.join(xs[lo..hi])
RECURSIVE join_range(_, _, _, _)
join_range(sep, xs, lo, hi) ==
  IF lo > hi THEN <<>>
  ELSE IF lo = hi THEN xs[lo]
  ELSE LET mid == (lo + hi) \div 2
       IN join_range(sep, xs, lo, mid) \o sep \o join_range(sep, xs, mid + 1, hi)
join(sep, xs) == join_range(sep, xs, 1, Len(xs))

\* [x.strip() for x in xs if x.strip()]
stripped_nonempty(xs) ==
  SelectSeq([i \in 1..Len(xs) |-> strip(xs[i])], LAMBDA s : s # <<>>)
\* xs[a:b] of Python
py_norm(n, i) == IF i < 0 THEN (IF i + n < 0 THEN 0 ELSE i + n) ELSE (IF i > n THEN n ELSE i)
py_slice(xs, a, b) == SubSeq(xs, py_norm(Len(xs), a) + 1, py_norm(Len(xs), b))
\* xs[i] of Python for a list, i possibly negative
py_index(xs, i) == IF i >= 0 THEN xs[i + 1] ELSE xs[Len(xs) + i + 1]

(***************************************************************************)
(* Input Guard: check_prompt_injection, validate_input                     *)
(***************************************************************************)
MAX_INPUT_LENGTH == 2000

S_ignore == <<"i","g","n","o","r","e">>
S_previous == <<"p","r","e","v","i","o","u","s">>
S_all == <<"a","l","l">>
S_instructions == <<"i","n","s","t","r","u","c","t","i","o","n","s">>
SP == <<" ">>
PROMPT_INJECTION_PATTERNS ==
  << S_ignore \o SP \o S_previous,
     S_ignore \o SP \o S_all \o SP \o S_previous,
     S_ignore \o SP \o S_all,
     <<"d","i","s","r","e","g","a","r","d">> \o SP \o S_previous,
     <<"f","o","r","g","e","t">> \o SP \o S_previous,
     S_ignore \o SP \o S_instructions,
     <<"n","e","w">> \o SP \o S_instructions,
     <<"s","y","s","t","e","m"," ","p","r","o","m","p","t">>,
     <<"y","o","u"," ","a","r","e"," ","n","o","w">>,
     <<"a","c","t"," ","a","s">>,
     <<"f","r","o","m"," ","n","o","w"," ","o","n">> >>

check_prompt_injection(text) ==
  LET text_lower == lower(text)
  IN \E k \in 1..Len(PROMPT_INJECTION_PATTERNS) :
        contains(text_lower, PROMPT_INJECTION_PATTERNS[k])

validate_input_injection_first(text, max_length) ==
  IF text = <<>> \/ strip(text) = <<>> THEN [ok |-> FALSE, reason |-> "empty"]
  ELSE IF check_prompt_injection(text) THEN [ok |-> FALSE, reason |-> "injection"]
  ELSE IF Len(text) > max_length THEN [ok |-> FALSE, reason |-> "length"]
  ELSE [ok |-> TRUE, reason |-> "none"]
validate_input_at_least(text, max_length) ==
  IF text = <<>> \/ strip(text) = <<>> THEN [ok |-> FALSE, reason |-> "empty"]
  ELSE IF Len(text) >= max_length THEN [ok |-> FALSE, reason |-> "length"]
  ELSE IF check_prompt_injection(text) THEN [ok |-> FALSE, reason |-> "injection"]
  ELSE [ok |-> TRUE, reason |-> "none"]
\* (is_valid, reason); the reason stands for the error message
validate_input(text, max_length) ==
  IF text = <<>> \/ strip(text) = <<>> THEN [ok |-> FALSE, reason |-> "empty"]
  ELSE IF Len(text) > max_length THEN [ok |-> FALSE, reason |-> "length"]
  ELSE IF check_prompt_injection(text) THEN [ok |-> FALSE, reason |-> "injection"]
  ELSE [ok |-> TRUE, reason |-> "none"]

(***************************************************************************)
(* Chunker, embedding provider, vector index, retriever                    *)
(***************************************************************************)
CHUNK_SIZE == 500
CHUNK_OVERLAP == 50

\* range(0, n, step) as the list of its values; step = 0 raises ValueError
range_count_floor(n, step) == IF step > 0 THEN n \div step ELSE 0
range_count(n, step) == IF step > 0 THEN (n + step - 1) \div step ELSE 0

chunk_text_stride_window(text, chunk_size, overlap) ==
  LET words == split_ws(text)
      step == chunk_size - overlap
      n == Len(words)
      window(i) == py_slice(words, i, i + step)
      all == [k \in 1..range_count(n, step) |-> join(SP, window((k - 1) * step))]
  IN IF step = 0 THEN [raised |-> TRUE, chunks |-> <<>>]
     ELSE [raised |-> FALSE, chunks |-> SelectSeq(all, LAMBDA c : strip(c) # <<>>)]
chunk_text(text, chunk_size, overlap) ==
  LET words == split_ws(text)
      step == chunk_size - overlap
      n == Len(words)
      window(i) == py_slice(words, i, i + chunk_size)
      all == [k \in 1..range_count(n, step) |-> join(SP, window((k - 1) * step))]
  IN IF step = 0 THEN [raised |-> TRUE, chunks |-> <<>>]
     ELSE [raised |-> FALSE, chunks |-> SelectSeq(all, LAMBDA c : strip(c) # <<>>)]

\* embedding_model.encode: some fixed function from text to a vector
EmbMod == 7
encode_one(text) == <<Len(text) % EmbMod>>
encode(texts) == [i \in 1..Len(texts) |-> encode_one(texts[i])]

\* (raised, index, embeddings); the index is faiss.IndexFlatL2 after add()
build_vector_index_first_only(chunks) ==
  IF chunks = <<>>
  THEN [raised |-> TRUE, index |-> [d |-> 0, vectors |-> <<>>], embeddings |-> <<>>]
  ELSE LET embeddings == encode(chunks)
       IN [raised |-> FALSE,
           index |-> [d |-> Len(embeddings[1]), vectors |-> <<embeddings[1]>>],
           embeddings |-> embeddings]
build_vector_index(chunks) ==
  IF chunks = <<>>
  THEN [raised |-> TRUE, index |-> [d |-> 0, vectors |-> <<>>], embeddings |-> <<>>]
  ELSE LET embeddings == encode(chunks)
       IN [raised |-> FALSE,
           index |-> [d |-> Len(embeddings[1]), vectors |-> embeddings],
           embeddings |-> embeddings]

ntotal(index) == Len(index.vectors)

RECURSIVE sum_sq(_, _, _)
sum_sq(a, b, i) == IF i > Len(a) THEN 0 ELSE (a[i] - b[i]) * (a[i] - b[i]) + sum_sq(a, b, i + 1)
l2(a, b) == sum_sq(a, b, 1)

\* IndexFlatL2.search for one query: k labels by ascending distance, the
\* labels past ntotal being -1
index_search(index, q, k) ==
  LET n == ntotal(index)
      dist(i) == l2(index.vectors[i + 1], q)
      before(j, i) == dist(j) < dist(i) \/ (dist(j) = dist(i) /\ j < i)
      rank(i) == Cardinality({j \in 0..(n - 1) : before(j, i)})
      nth(r) == CHOOSE i \in 0..(n - 1) : rank(i) = r - 1
  IN [r \in 1..k |-> IF r <= n THEN nth(r) ELSE -1]

retrieve_relevant_chunks(query, chunks, index, top_k) ==
  LET query_embedding == encode_one(query)
      indices == index_search(index, query_embedding, top_k)
  IN [r \in 1..Len(indices) |-> py_index(chunks, indices[r])]

(***************************************************************************)
(* Summary Filter: filter_summary_for_quiz                                 *)
(***************************************************************************)
S_newline == <<"\n">>

\* re.split(r'[\n]+', text): the fields between maximal runs of newlines
re_split_newlines(text) ==
  LET fields == split(text, S_newline)
      k == Len(fields)
      keep == {i \in 1..k : i = 1 \/ i = k \/ fields[i] # <<>>}
      nth(r) == CHOOSE i \in keep : Cardinality({j \in keep : j < i}) = r - 1
  IN [r \in 1..Cardinality(keep) |-> fields[nth(r)]]

is_word(s, i) ==
  i >= 1 /\ i <= Len(s) /\ s[i] \in (LowerChars \cup UpperChars \cup DigitChars \cup {"_"})
\* \b at the position before s[i] (i in 1..Len(s)+1)
word_boundary(s, i) == is_word(s, i - 1) # is_word(s, i)
\* re.search(r'\bLIT\b', s)
search_word(s, lit) ==
  \E i \in 1..(Len(s) - Len(lit) + 1) :
     match_at(s, lit, i) /\ word_boundary(s, i) /\ word_boundary(s, i + Len(lit))
\* re.search(r'\bvol\.?', s)
search_vol(s) ==
  \E i \in 1..(Len(s) - 2) : match_at(s, <<"v","o","l">>, i) /\ word_boundary(s, i)
\* re.search(r'\([12][0-9]{3}\)', s)
search_year(s) ==
  \E i \in 1..(Len(s) - 5) :
     /\ s[i] = "(" /\ s[i + 1] \in {"1", "2"}
     /\ \A j \in (i + 2)..(i + 4) : s[j] \in DigitChars
     /\ s[i + 5] = ")"
\* re.search(r'[A-Z][a-z]+,\s+[A-Z]\.', s)
search_name_initial(s) ==
  \E c \in {i \in 1..Len(s) : s[i] = ","} :
     /\ \E a \in 1..(c - 2) :
           s[a] \in UpperChars /\ \A j \in (a + 1)..(c - 1) : s[j] \in LowerChars
     /\ \E b \in (c + 2)..(Len(s) - 1) :
           /\ \A j \in (c + 1)..(b - 1) : s[j] \in WS
           /\ s[b] \in UpperChars /\ s[b + 1] = "."
matches_bib_pattern(s) ==
  \/ search_word(s, <<"e","t"," ","a","l">>)
  \/ search_word(s, <<"d","o","i">>)
  \/ search_vol(s)
  \/ search_word(s, <<"j","o","u","r","n","a","l">>)
  \/ search_word(s, <<"I","S","B","N">>)
  \/ search_year(s)
  \/ search_name_initial(s)

filter_summary_for_quiz_no_fallback(summary_text) ==
  LET raw_sentences == re_split_newlines(summary_text)
      stripped == [i \in 1..Len(raw_sentences) |-> strip(raw_sentences[i])]
      keep(s) == s # <<>> /\ ~matches_bib_pattern(s) /\ ~(count_char(s, ",") > 3)
  IN SelectSeq(stripped, keep)
filter_summary_for_quiz(summary_text) ==
  LET raw_sentences == re_split_newlines(summary_text)
      stripped == [i \in 1..Len(raw_sentences) |-> strip(raw_sentences[i])]
      keep(s) == s # <<>> /\ ~matches_bib_pattern(s) /\ ~(count_char(s, ",") > 3)
      filtered == SelectSeq(stripped, keep)
  IN IF filtered = <<>>
     THEN slice_to(stripped_nonempty(raw_sentences), 8)
     ELSE filtered

(***************************************************************************)
(* Quiz parsing and cleaning: parse_quiz, clean_question_with_context      *)
(***************************************************************************)
S_dashes == <<"-","-","-">>
S_colon == <<":">>
S_Correct == <<"C","o","r","r","e","c","t",":">>
S_Explanation == <<"E","x","p","l","a","n","a","t","i","o","n",":">>
Letters == {"A", "B", "C", "D"}

\* dict[k] = v
dict_set(d, k, v) == [x \in (DOMAIN d) \cup {k} |-> IF x = k THEN v ELSE d[x]]

new_question(i) ==
  [id |-> i, question |-> <<>>, options |-> [x \in {} |-> <<>>], correct |-> <<>>,
   explanation |-> <<>>, raised |-> FALSE]

classify_line_options_after_question(q, line, i) ==
  IF q.raised THEN q
  ELSE IF \/ startswith(line, <<"Q", ":">>)
          \/ startswith(line, <<DigitSeq[i + 1], ".">>)
          \/ (q.question = <<>> /\ contains(line, <<"?">>))
  THEN [q EXCEPT !.question =
          IF contains(line, S_colon)
          THEN LET parts == split1(line, S_colon) IN strip(parts[Len(parts)])
          ELSE strip(line)]
  ELSE IF q.question # <<>> /\ \E k \in Letters : startswith(line, <<k, ")">>)
  THEN [q EXCEPT !.options = dict_set(q.options, line[1], strip(slice_from(line, 2)))]
  ELSE IF startswith(line, S_Correct)
  THEN LET val == upper(strip(split(line, S_colon)[2]))
       IN IF val = <<>> THEN [q EXCEPT !.raised = TRUE]
          ELSE [q EXCEPT !.correct = <<val[1]>>]
  ELSE IF startswith(line, S_Explanation)
  THEN [q EXCEPT !.explanation = strip(split1(line, S_colon)[2])]
  ELSE q
\* one pass of the loop over a segment's lines (the if / elif chain);
\* raised: line.split(':')[1].strip().upper()[0] on an empty string
classify_line(q, line, i) ==
  IF q.raised THEN q
  ELSE IF \/ startswith(line, <<"Q", ":">>)
          \/ startswith(line, <<DigitSeq[i + 1], ".">>)
          \/ (q.question = <<>> /\ contains(line, <<"?">>))
  THEN [q EXCEPT !.question =
          IF contains(line, S_colon)
          THEN LET parts == split1(line, S_colon) IN strip(parts[Len(parts)])
          ELSE strip(line)]
  ELSE IF \E k \in Letters : startswith(line, <<k, ")">>)
  THEN [q EXCEPT !.options = dict_set(q.options, line[1], strip(slice_from(line, 2)))]
  ELSE IF startswith(line, S_Correct)
  THEN LET val == upper(strip(split(line, S_colon)[2]))
       IN IF val = <<>> THEN [q EXCEPT !.raised = TRUE]
          ELSE [q EXCEPT !.correct = <<val[1]>>]
  ELSE IF startswith(line, S_Explanation)
  THEN [q EXCEPT !.explanation = strip(split1(line, S_colon)[2])]
  ELSE q

RECURSIVE classify_lines(_, _, _)
classify_lines(q, lines, i) ==
  IF lines = <<>> THEN q
  ELSE classify_lines(classify_line(q, Head(lines), i), Tail(lines), i)

question_valid_some_options(q) ==
  /\ q.question # <<>>
  /\ DOMAIN q.options # {}
  /\ q.correct \in {<<k>> : k \in Letters}
question_valid(q) ==
  /\ q.question # <<>>
  /\ DOMAIN q.options # {}
  /\ q.correct \in {<<k>> : k \in Letters}
  /\ Cardinality({k \in DOMAIN q.options : k \in Letters}) = 4

as_question(q) ==
  [id |-> q.id, question |-> q.question,
   options |-> [k \in {x \in DOMAIN q.options : x \in Letters} |-> q.options[k]],
   correct |-> q.correct, explanation |-> q.explanation]

\* the body of the loop over sections: the questions so far, or raised
RECURSIVE parse_sections(_, _, _)
parse_sections(sections, i, acc) ==
  IF i > Len(sections) THEN [raised |-> FALSE, questions |-> acc]
  ELSE LET lines == stripped_nonempty(split(strip(sections[i]), S_newline))
       IN IF Len(lines) < 6 THEN parse_sections(sections, i + 1, acc)
          ELSE LET q == classify_lines(new_question(i), lines, i)
               IN IF q.raised THEN [raised |-> TRUE, questions |-> <<>>]
                  ELSE parse_sections(sections, i + 1,
                          IF question_valid(q) THEN Append(acc, as_question(q)) ELSE acc)

parse_quiz(quiz_text) ==
  LET sections == SelectSeq(split(quiz_text, S_dashes), LAMBDA x : strip(x) # <<>>)
  IN parse_sections(slice_to(sections, 3), 1, <<>>)

\* re.sub(r'^\*\*[^*]+\*\*:?\s*', '', v)
remove_bold_heading(v) ==
  LET stars == {j \in 3..Len(v) : v[j] = "*"}
      e == IF stars = {} THEN 0 ELSE MinOf(stars)
      p == IF e + 2 <= Len(v) /\ v[e + 2] = ":" THEN e + 3 ELSE e + 2
  IN IF startswith(v, <<"*", "*">>) /\ e >= 4 /\ match_at(v, <<"*", "*">>, e)
     THEN lstrip(SubSeq(v, p, Len(v)))
     ELSE v


cut_suffix(expl, marker) ==
  IF contains(expl, marker) THEN strip(split(expl, marker)[1]) ELSE expl

clean_question_with_context(question, context_text) ==
  [question EXCEPT
     !.options = [k \in DOMAIN question.options |->
                     strip(remove_bold_heading(question.options[k]))],
     !.explanation =
        cut_suffix(
          cut_suffix(strip(question.explanation),
                     <<"C","o","n","t","e","x","t"," ","r","e","f","e","r","e","n","c","e",":">>),
          <<"R","e","f","e","r","e","n","c","i","n","g",":">>)]

(***************************************************************************)
(* Generation Client: call_ollama. The request is (prompt, context); the   *)
(* backend answers with some text or the call raises.                      *)
(***************************************************************************)
GenFail == [ok |-> FALSE, text |-> <<>>]
GenOk(t) == [ok |-> TRUE, text |-> t]

S_key_concepts_overview ==
  <<"k","e","y"," ","c","o","n","c","e","p","t","s"," ","o","v","e","r","v","i","e","w">>

\* the f-string built once per request; one token stands for its text
QUIZ_PROMPT == <<"quiz_prompt">>
\* "CRITICAL: ... Previous attempt only produced " + str(n) + ".\n\n" + quiz_prompt
retry_prompt(n, quiz_prompt) == <<"reminder_prefix", DigitSeq[n + 1], ".\n\n">> \o quiz_prompt

(***************************************************************************)
(* Inputs: the documents, summaries, questions and backend answers the     *)
(* requests are run on                                                     *)
(***************************************************************************)
\* n one-letter words separated by single spaces
words_text(n) == [i \in 1..(2 * n - 1) |-> IF i % 2 = 1 THEN "w" ELSE " "]
DocShort == words_text(2)
\* one word more than the stride CHUNK_SIZE - CHUNK_OVERLAP: two chunks
DocLong == words_text(CHUNK_SIZE - CHUNK_OVERLAP + 1)
DocumentTexts == {<<" ", "\n">>, DocShort, DocLong}

\* the first n one-letter lines a, b, c, ...
plain_lines(n) == [i \in 1..n |-> <<LowerSeq[i]>>]
Cit_doi == <<"d","o","i",":","1","0",".","1","/","x">>
Cit_name == <<"S","m","i","t","h",","," ","J","."," ","(","2","0","2","0",")",".">>
Sum3 == join(S_newline, plain_lines(3))
SumMixed == join(S_newline, <<Cit_name>> \o plain_lines(10) \o <<Cit_doi>>)

\* what the backend may answer to the summary request of an upload
SummaryAnswers == {GenFail, GenOk(<<>>), GenOk(Sum3)}
\* the summary a quiz request may carry (<<>>: none)
IncomingSummaries ==
  {<<>>,
   join(S_newline, <<<<"a",",","b",",","c",",","d">>,
                     <<"b",",","c",",","d",",","e",",","f">>>>),
   join(S_newline, plain_lines(16)),
   join(S_newline, <<Cit_doi, Cit_name>>),
   join(S_newline, <<Cit_doi, Cit_name, <<"a",",","b",",","c",",","d",",","e">>>>),
   SumMixed,
   join(<<"\n", "\n">>, [i \in 1..9 |-> <<" ">> \o Cit_doi \o <<LowerSeq[i], " ">>]),
   join(S_newline, plain_lines(2) \o <<<<"A","c","t"," ","a","s">>>>)}

L_Q == <<"Q",":"," ","x","?">>
L_A == <<"A",")"," ","a">>
L_B == <<"B",")"," ","b">>
L_C == <<"C",")"," ","c">>
L_D == <<"D",")"," ","d">>
L_E == S_Explanation \o <<" ","e">>
L_Correct(k) == S_Correct \o <<" ", k>>
segment(lines) == join(S_newline, lines)
response(segments) == join(S_newline \o S_dashes \o S_newline, segments)
SegGood(k) == segment(<<L_Q, L_A, L_B, L_C, L_D, L_Correct(k), L_E>>)

R3 == response(<<SegGood("A"), SegGood("B"), SegGood("C")>>)
R4 == response(<<SegGood("D"), SegGood("C"), SegGood("B"), SegGood("A")>>)
R2 ==
  response(<<segment(<<L_Q, L_A, L_B, L_C, L_Correct("A"), L_E>>), SegGood("B"), SegGood("C")>>)
R1 == response(<<segment(<<L_Q, L_A, L_B>>), SegGood("D")>>)
REmptyOption ==
  response(<<segment(<<L_Q, <<"A",")">>, L_B, L_C, L_D, L_Correct("B"), L_E>>),
             SegGood("A"), SegGood("D")>>)
RBoldOption ==
  response(<<SegGood("A"),
             segment(<<L_Q, L_A, <<"B",")"," ","*","*","h","*","*">>, L_C, L_D,
                       L_Correct("c"), L_E>>),
             segment(<<<<"3","."," ","y">>, L_A, L_B, L_C, L_D, L_Correct("D"), L_E>>)>>)
RNoCorrect == response(<<SegGood("A"), segment(<<L_Q, L_A, L_B, L_C, L_D, S_Correct, L_E>>)>>)

\* what the backend may answer to a quiz request
QuizAnswers ==
  {GenFail} \cup
  {GenOk(t) : t \in {R3, R4, R2, R1, <<"n","o">>, REmptyOption, RBoldOption, RNoCorrect}}

Q_ok == <<"h","i","?">>
Q_inject == <<"S","y","s","t","e","m"," ","P","r","o","m","p","t">>
ChatQuestions == {<<>>, Q_ok, Q_inject}
ChatAnswers == {GenFail, GenOk(<<"o","k">>)}

\* random.shuffle: the rotations by 0..MaxRotate and the reversal stand for
\* the permutations it may produce
MaxRotate == 1
shuffles(n) ==
  {[i \in 1..n |-> ((i - 1 + k) % n) + 1] : k \in 0..MaxRotate}
  \cup {[i \in 1..n |-> n + 1 - i]}
permuted(xs, perm) == [i \in 1..Len(xs) |-> xs[perm[i]]]

MaxSessions == 1
Slots == {1, 2}

(***************************************************************************)
(* State                                                                   *)
(***************************************************************************)
VARIABLES
  document_store,  \* session id -> the dict stored for it
  issued,          \* the session ids clients hold in their cookie
  upload,          \* the upload request in flight
  req,             \* slot -> the chat or quiz request running in it
  ondemand,        \* session id -> index builds made by chat and quiz requests
  applied          \* a function of the program applied on its own: arguments, result

vars == <<document_store, issued, upload, req, ondemand, applied>>

\* Python's None where an index is expected
None == [d |-> -1, vectors |-> <<>>]

\* d.get(key, default)
dict_get(d, key, default) == IF key \in DOMAIN d THEN d[key] ELSE default

IdleUpload == [pc |-> "idle", sid |-> 0]
IdleReq ==
  [kind |-> "idle", pc |-> "idle", sid |-> 0,
   question |-> <<>>,             \* chat: the question
   incoming |-> <<>>,             \* quiz: the summary of the request body
   index |-> None,                \* the local variable index
   saw_missing |-> FALSE,         \* read no index where one had been built
   summary_text |-> <<>>,
   grounded |-> FALSE,            \* filter_summary_for_quiz has run
   lines |-> <<>>,                \* what filter_summary_for_quiz returned
   filtered_sentences |-> <<>>,
   quiz_context |-> <<>>,
   questions |-> <<>>,
   counts |-> <<>>,               \* len(questions) after each parse
   calls |-> <<>>,                \* the call_ollama calls of this request
   outcome |-> "none",
   returned |-> <<>>,             \* the questions of the response
   telemetry |-> <<>>]            \* the pathways logged by this request

InitServer ==
  /\ document_store = [x \in {} |-> <<>>]
  /\ issued = {}
  /\ upload = IdleUpload
  /\ req = [r \in Slots |-> IdleReq]
  /\ ondemand = [x \in {} |-> 0]

\* no function is applied on its own while the server runs
Init == InitServer /\ applied = [f |-> "none", done |-> TRUE]

finish(q, outcome, pathways) ==
  [q EXCEPT !.pc = "done", !.outcome = outcome, !.telemetry = q.telemetry \o pathways]

(***************************************************************************)
(* upload_pdf / upload_sample                                              *)
(***************************************************************************)
\* the dict assigned to document_store[session_id]
session_record_without_index(chunks, built) ==
  [chunks |-> chunks, filename |-> "notes.pdf",
   index |-> None, embeddings |-> built.embeddings]
session_record(chunks, built) ==
  [chunks |-> chunks, filename |-> "notes.pdf",
   index |-> built.index, embeddings |-> built.embeddings]

\* chunk_text(text) of each document of the model, computed once
chunked_text == [t \in DocumentTexts |-> chunk_text(t, CHUNK_SIZE, CHUNK_OVERLAP)]

\* up to the assignment of document_store[session_id]; a text without
\* extractable content, or without chunks, ends the request in its except
UploadStore(texts) ==
  /\ upload.pc = "idle"
  /\ Cardinality(DOMAIN document_store) < MaxSessions
  /\ \E text \in texts :
       LET chunked == chunked_text[text]
           built == build_vector_index(chunked.chunks)
           session_id == Cardinality(DOMAIN document_store) + 1
       IN IF strip(text) = <<>> \/ chunked.raised \/ built.raised
          THEN UNCHANGED <<document_store, upload, ondemand>>
          ELSE /\ document_store' =
                    dict_set(document_store, session_id,
                             session_record(chunked.chunks, built))
               /\ ondemand' = dict_set(ondemand, session_id, 0)
               /\ upload' = [pc |-> "summarize", sid |-> session_id]
  /\ UNCHANGED <<issued, req, applied>>

\* the summary request and the assignment of ['summary']; the cookie goes
\* out with the response, also with the error response
UploadSummarize(answers) ==
  /\ upload.pc = "summarize"
  /\ \E answer \in answers :
       LET doc == document_store[upload.sid]
       IN document_store' =
            IF answer.ok
            THEN [document_store EXCEPT ![upload.sid] = dict_set(doc, "summary", answer.text)]
            ELSE document_store
  /\ issued' = issued \cup {upload.sid}
  /\ upload' = IdleUpload
  /\ UNCHANGED <<req, ondemand, applied>>

(***************************************************************************)
(* chat                                                                    *)
(***************************************************************************)
\* session.get('session_id'): a cookie a client holds, or 0 for none
Cookies == issued \cup {0}
no_session(session_id) == session_id = 0 \/ session_id \notin DOMAIN document_store

\* lines 339-354: validation, then the session lookup
ChatBegin(r, questions) ==
  /\ req[r].pc = "idle"
  /\ \E question \in questions, session_id \in Cookies :
       LET q == [IdleReq EXCEPT !.kind = "chat", !.question = question,
                                !.sid = session_id]
           valid == validate_input(question, MAX_INPUT_LENGTH)
       IN req' = [req EXCEPT ![r] =
            IF ~valid.ok THEN finish(q, "validation_error", <<"chat_validation_error">>)
            ELSE IF no_session(session_id) THEN finish(q, "no_session", <<>>)
            ELSE [q EXCEPT !.pc = "read_index"]]
  /\ UNCHANGED <<document_store, issued, upload, ondemand, applied>>

\* line 358: index = doc_data.get('index')
ChatReadIndex(r) ==
  /\ req[r].pc = "read_index"
  /\ LET index == dict_get(document_store[req[r].sid], "index", None)
     IN req' = [req EXCEPT ![r].index = index, ![r].pc = "ensure_index",
                           ![r].saw_missing = (index = None)]
  /\ UNCHANGED <<document_store, issued, upload, ondemand, applied>>

\* lines 359-361: if not index: build it and store it
ChatEnsureIndex(r) ==
  /\ req[r].pc = "ensure_index"
  /\ LET doc == document_store[req[r].sid]
         built == build_vector_index(doc.chunks)
     IN IF req[r].index # None
        THEN /\ req' = [req EXCEPT ![r].pc = "answer"]
             /\ UNCHANGED <<document_store, ondemand>>
        ELSE IF built.raised
        THEN /\ req' = [req EXCEPT ![r] = finish(req[r], "error", <<"chat_error">>)]
             /\ UNCHANGED <<document_store, ondemand>>
        ELSE /\ req' = [req EXCEPT ![r].index = built.index, ![r].pc = "answer"]
             /\ document_store' =
                  [document_store EXCEPT ![req[r].sid] = dict_set(doc, "index", built.index)]
             /\ ondemand' = [ondemand EXCEPT ![req[r].sid] = @ + 1]
  /\ UNCHANGED <<issued, upload, applied>>

\* lines 363-376: retrieval, the generation call, the answer or the error
ChatAnswer(r) ==
  /\ req[r].pc = "answer"
  /\ \E answer \in ChatAnswers :
       LET q == req[r]
           doc == document_store[q.sid]
           relevant_context ==
             join(<<"\n", "\n">>,
                  retrieve_relevant_chunks(q.question, doc.chunks, q.index, 3))
           called == [q EXCEPT !.calls = Append(q.calls,
                        [prompt |-> q.question, context |-> relevant_context,
                         answer |-> answer])]
       IN req' = [req EXCEPT ![r] =
            IF answer.ok THEN finish(called, "ok", <<"chat_rag">>)
            ELSE finish(called, "error", <<"chat_error">>)]
  /\ UNCHANGED <<document_store, issued, upload, ondemand, applied>>

(***************************************************************************)
(* generate_quiz                                                           *)
(***************************************************************************)
\* lines 384-397: the session lookup and the client-disconnect check
QuizBegin(r, summaries) ==
  /\ req[r].pc = "idle"
  /\ \E session_id \in Cookies, incoming \in summaries, closed \in BOOLEAN :
       LET q == [IdleReq EXCEPT !.kind = "quiz", !.incoming = incoming,
                                !.sid = session_id]
       IN req' = [req EXCEPT ![r] =
            IF no_session(session_id) THEN finish(q, "no_session", <<>>)
            ELSE IF closed THEN finish(q, "client_closed", <<>>)
            ELSE [q EXCEPT !.pc = "ground"]]
  /\ UNCHANGED <<document_store, issued, upload, ondemand, applied>>

\* lines 402-409: incoming.get('summary') or doc_data.get('summary', ''),
\* else the retrieval over the stored (or a freshly built) index
grounding_cached_first(incoming, doc) ==
  LET summary_text ==
        IF dict_get(doc, "summary", <<>>) # <<>>
        THEN dict_get(doc, "summary", <<>>) ELSE incoming
      stored == dict_get(doc, "index", None)
      built == build_vector_index(doc.chunks)
      index == IF stored # None THEN stored ELSE built.index
  IN IF summary_text # <<>>
     THEN [raised |-> FALSE, text |-> summary_text, retrieved |-> FALSE,
           read |-> None, built |-> FALSE]
     ELSE IF stored = None /\ built.raised
     THEN [raised |-> TRUE, text |-> <<>>, retrieved |-> FALSE,
           read |-> stored, built |-> FALSE]
     ELSE [raised |-> FALSE,
           text |-> join(S_newline,
                         retrieve_relevant_chunks(S_key_concepts_overview,
                                                  doc.chunks, index, 5)),
           retrieved |-> TRUE, read |-> index, built |-> (stored = None)]
grounding(incoming, doc) ==
  LET summary_text ==
        IF incoming # <<>> THEN incoming ELSE dict_get(doc, "summary", <<>>)
      stored == dict_get(doc, "index", None)
      built == build_vector_index(doc.chunks)
      index == IF stored # None THEN stored ELSE built.index
  IN IF summary_text # <<>>
     THEN [raised |-> FALSE, text |-> summary_text, retrieved |-> FALSE,
           read |-> None, built |-> FALSE]
     ELSE IF stored = None /\ built.raised
     THEN [raised |-> TRUE, text |-> <<>>, retrieved |-> FALSE,
           read |-> stored, built |-> FALSE]
     ELSE [raised |-> FALSE,
           text |-> join(S_newline,
                         retrieve_relevant_chunks(S_key_concepts_overview,
                                                  doc.chunks, index, 5)),
           retrieved |-> TRUE, read |-> index, built |-> (stored = None)]

\* lines 413: too few lines to ask about
insufficient_below_two(filtered_sentences) == Len(filtered_sentences) < 2
insufficient(filtered_sentences) == Len(filtered_sentences) < 3

\* lines 399-418: grounding text, Summary Filter, the shuffle in place, the
\* context
QuizGround(r) ==
  /\ req[r].pc = "ground"
  /\ LET q == req[r]
         doc == document_store[q.sid]
         g == grounding(q.incoming, doc)
         filtered == filter_summary_for_quiz(g.text)
     IN /\ \E perm \in shuffles(Len(filtered)) :
             LET shuffled == permuted(filtered, perm)
                 seen == [q EXCEPT !.summary_text = g.text, !.index = g.read,
                                   !.saw_missing = (g.retrieved /\ g.built),
                                   !.grounded = ~g.raised]
             IN req' = [req EXCEPT ![r] =
                  IF g.raised THEN finish(seen, "error", <<"quiz_error">>)
                  ELSE IF insufficient(filtered)
                  THEN finish([seen EXCEPT !.lines = filtered,
                                           !.filtered_sentences = filtered],
                              "insufficient_content", <<>>)
                  ELSE [seen EXCEPT !.lines = filtered,
                                    !.filtered_sentences = shuffled,
                                    !.quiz_context = join(S_newline, shuffled),
                                    !.pc = "generate"]]
        /\ ondemand' = IF g.built /\ ~g.raised
                       THEN [ondemand EXCEPT ![q.sid] = @ + 1] ELSE ondemand
  /\ UNCHANGED <<document_store, issued, upload, applied>>

\* lines 451, 459: the conditions of the two retries
needs_reminder_below_two(questions) == Len(questions) < 2
needs_reminder(questions) == Len(questions) < 3
needs_expanded_any_length(questions, filtered_sentences) == Len(questions) < 3
needs_expanded(questions, filtered_sentences) ==
  Len(questions) < 3 /\ Len(filtered_sentences) > 8

\* where the request goes after the parse of each attempt
pc_after_reminder(questions, filtered_sentences) ==
  IF needs_expanded(questions, filtered_sentences) THEN "expanded" ELSE "finalize"
pc_after_expanded_again(questions, filtered_sentences) ==
  IF needs_expanded(questions, filtered_sentences) THEN "expanded" ELSE "finalize"
pc_after_expanded(questions, filtered_sentences) == "finalize"

pc_after(pc, questions, filtered_sentences) ==
  CASE pc = "generate" ->
         IF needs_reminder(questions) THEN "reminder"
         ELSE pc_after_reminder(questions, filtered_sentences)
    [] pc = "reminder" -> pc_after_reminder(questions, filtered_sentences)
    [] OTHER -> pc_after_expanded(questions, filtered_sentences)

\* parse_quiz of each answer of the model, computed once
parsed_answer == [a \in QuizAnswers |-> parse_quiz(a.text)]

\* quiz_text = call_ollama(prompt, context); questions = parse_quiz(quiz_text)
\* and the exception either may raise
attempt_merging(q, prompt, context, answer) ==
  LET called == [q EXCEPT !.calls = Append(q.calls,
                    [prompt |-> prompt, context |-> context, answer |-> answer])]
      parsed == parsed_answer[answer]
      merged == q.questions \o parsed.questions
  IN IF ~answer.ok \/ parsed.raised
     THEN finish(called, "error", <<"quiz_error">>)
     ELSE [called EXCEPT !.questions = merged,
                         !.counts = Append(q.counts, Len(parsed.questions)),
                         !.pc = pc_after(q.pc, merged, q.filtered_sentences)]
attempt(q, prompt, context, answer) ==
  LET called == [q EXCEPT !.calls = Append(q.calls,
                    [prompt |-> prompt, context |-> context, answer |-> answer])]
      parsed == parsed_answer[answer]
  IN IF ~answer.ok \/ parsed.raised
     THEN finish(called, "error", <<"quiz_error">>)
     ELSE [called EXCEPT !.questions = parsed.questions,
                         !.counts = Append(q.counts, Len(parsed.questions)),
                         !.pc = pc_after(q.pc, parsed.questions, q.filtered_sentences)]

\* lines 446-448: the first attempt
QuizGenerate(r, answers) ==
  /\ req[r].pc = "generate"
  /\ \E answer \in answers :
       LET q == req[r]
       IN req' = [req EXCEPT ![r] =
            attempt(q, QUIZ_PROMPT, q.quiz_context, answer)]
  /\ UNCHANGED <<document_store, issued, upload, ondemand, applied>>

\* lines 451-456: the retry with the reminder
QuizRetryReminder(r, answers) ==
  /\ req[r].pc = "reminder"
  /\ \E answer \in answers :
       LET q == req[r]
       IN req' = [req EXCEPT ![r] =
            attempt(q, retry_prompt(Len(q.questions), QUIZ_PROMPT), q.quiz_context,
                    answer)]
  /\ UNCHANGED <<document_store, issued, upload, ondemand, applied>>

\* line 460: expanded_context
expanded_context(filtered_sentences) == join(S_newline, slice_to(filtered_sentences, 15))

\* lines 459-462: the retry with more context
QuizRetryExpanded(r, answers) ==
  /\ req[r].pc = "expanded"
  /\ \E answer \in answers :
       LET q == req[r]
       IN req' = [req EXCEPT ![r] =
            attempt(q, QUIZ_PROMPT, expanded_context(q.filtered_sentences), answer)]
  /\ UNCHANGED <<document_store, issued, upload, ondemand, applied>>

\* lines 475-476: q['id'] = i for i, q in enumerate(questions, 1)
renumbered_not(questions) == questions
renumbered(questions) == [i \in 1..Len(questions) |-> [questions[i] EXCEPT !.id = i]]

\* lines 465-476: nothing to return, or the first 3 questions cleaned and
\* renumbered
finalized(questions, quiz_context) ==
  LET first == slice_to(questions, 3)
      cleaned == [i \in 1..Len(first) |->
                    clean_question_with_context(first[i], quiz_context)]
  IN renumbered(cleaned)

\* line 465: nothing valid to return
no_valid_below_two(questions) == Len(questions) < 2
no_valid(questions) == Len(questions) = 0

\* lines 464-481
QuizFinalize(r) ==
  /\ req[r].pc = "finalize"
  /\ LET q == req[r]
     IN req' = [req EXCEPT ![r] =
          IF no_valid(q.questions) THEN finish(q, "no_valid_questions", <<>>)
          ELSE finish([q EXCEPT !.returned = finalized(q.questions, q.quiz_context)],
                      "ok", <<"quiz_generation_rag">>)]
  /\ UNCHANGED <<document_store, issued, upload, ondemand, applied>>

\* the response has gone out: the slot is free for the next request
Respond(r) ==
  /\ req[r].pc = "done"
  /\ req' = [req EXCEPT ![r] = IdleReq]
  /\ UNCHANGED <<document_store, issued, upload, ondemand, applied>>

(***************************************************************************)
(* The functions applied on their own                                      *)
(***************************************************************************)
server_unchanged == UNCHANGED <<document_store, issued, upload, req, ondemand>>

\* retrieve_relevant_chunks over the index build_vector_index makes of the
\* chunks
MaxTopK == 5
RetrieveArguments ==
  {[f |-> "retrieve_relevant_chunks", done |-> FALSE, query |-> query,
    chunks |-> chunks, top_k |-> top_k, out |-> <<>>] :
      query \in {<<>>, Q_ok, S_key_concepts_overview},
      chunks \in {<<words_text(1)>>,
                  <<words_text(2), words_text(1)>>,
                  <<words_text(1), words_text(2), words_text(3)>>,
                  <<words_text(3), words_text(1), words_text(4), words_text(2)>>},
      top_k \in 1..MaxTopK}

ApplyRetrieve ==
  /\ applied.f = "retrieve_relevant_chunks" /\ ~applied.done
  /\ LET index == build_vector_index(applied.chunks).index
     IN applied' = [applied EXCEPT
          !.done = TRUE,
          !.out = retrieve_relevant_chunks(applied.query, applied.chunks, index,
                                           applied.top_k)]
  /\ server_unchanged

\* chunk_text on texts of up to MaxWords words, written with single blanks
\* or with other whitespace around the words
MaxWords == 6
MaxChunkSize == 4
ChunkArguments ==
  {[f |-> "chunk_text", done |-> FALSE, words |-> plain_lines(n),
    text |-> IF style = "plain" THEN join(SP, plain_lines(n))
             ELSE <<"\n">> \o join(<<" ", "\t">>, plain_lines(n)) \o <<" ">>,
    chunk_size |-> chunk_size, overlap |-> overlap,
    out |-> [raised |-> FALSE, chunks |-> <<>>]] :
      n \in 0..MaxWords, style \in {"plain", "padded"},
      chunk_size \in 0..MaxChunkSize, overlap \in 0..MaxChunkSize}

ApplyChunk ==
  /\ applied.f = "chunk_text" /\ ~applied.done
  /\ applied' = [applied EXCEPT
       !.done = TRUE,
       !.out = chunk_text(applied.text, applied.chunk_size, applied.overlap)]
  /\ server_unchanged

\* validate_input on blank texts, texts free of deny-list phrases and texts
\* holding one, for every max_length up to MaxLength and for the default
MaxLength == 8
clean_text(n) == [i \in 1..n |-> IF i % 3 = 2 THEN " " ELSE "x"]
T_REACT == <<"R","E","A","C","T"," ","A","S","I","D","E">>
ValidateArguments ==
  {[f |-> "validate_input", done |-> FALSE, text |-> text, max_length |-> max_length,
    out |-> [ok |-> FALSE, reason |-> "none"]] :
      text \in {[i \in 1..n |-> IF i % 2 = 1 THEN " " ELSE "\n"] : n \in 0..(MaxLength + 1)}
                 \cup {clean_text(n) : n \in 1..(MaxLength + 1)}
                 \cup {clean_text(MAX_INPUT_LENGTH), clean_text(MAX_INPUT_LENGTH + 1)}
                 \cup {<<"A","c","t"," ","A","s">>, T_REACT,
                       <<"a","c","t"," "," ","a","s">>,
                       <<"i","G","N","O","R","E"," ","a","l","l">>,
                       <<"\n"," ">> \o Q_inject, Q_ok, Q_inject},
      max_length \in (0..MaxLength) \cup {MAX_INPUT_LENGTH}}

ApplyValidate ==
  /\ applied.f = "validate_input" /\ ~applied.done
  /\ applied' = [applied EXCEPT
       !.done = TRUE, !.out = validate_input(applied.text, applied.max_length)]
  /\ server_unchanged

\* parse_quiz on answers of three segments in the format the prompt asks
\* for. A segment is written from (form, correct, lacking): its question
\* line is "Q: x?" or starts with the ordinal of the segment, lacking names
\* the option line left out ("none": all four are there)
SegmentShapes ==
  {[form |-> form, correct |-> correct, lacking |-> "none"] :
      form \in {"Q", "ordinal"}, correct \in Letters}
    \cup {[form |-> "Q", correct |-> "A", lacking |-> lacking] : lacking \in Letters}
question_of(shape) == IF shape.form = "Q" THEN <<"x", "?">> ELSE <<"z", "?">>
option_of(shape, k) == IF shape.form = "Q" THEN <<lower_char(k)>> ELSE <<lower_char(k), "?">>
explanation_of(shape) == IF shape.form = "Q" THEN <<"e">> ELSE <<"e", ":", " ", "f">>
written_segment(shape, i) ==
  LET question_line ==
        IF shape.form = "Q" THEN <<"Q", ":", " ">> \o question_of(shape)
        ELSE <<DigitSeq[i + 1], ".", " ", "y", ":", " ">> \o question_of(shape)
      option_line(k) ==
        IF shape.lacking = k THEN <<>>
        ELSE IF shape.form = "Q" THEN <<k, ")", " ">> \o option_of(shape, k)
        ELSE <<" ", " ", k, ")">> \o option_of(shape, k) \o <<" ">>
  IN segment(SelectSeq(<<question_line,
                         option_line("A"), option_line("B"),
                         option_line("C"), option_line("D"),
                         S_Correct \o <<" ", shape.correct>>,
                         S_Explanation \o <<" ">> \o explanation_of(shape)>>,
                       LAMBDA line : line # <<>>))
ParseArguments ==
  {[f |-> "parse_quiz", done |-> FALSE, shapes |-> <<s1, s2, s3>>,
    quiz_text |-> response(<<written_segment(s1, 1), written_segment(s2, 2),
                             written_segment(s3, 3)>>),
    out |-> [raised |-> FALSE, questions |-> <<>>]] :
      s1 \in SegmentShapes, s2 \in SegmentShapes, s3 \in SegmentShapes}

\* parse_quiz on one segment whose 'Correct:' line ends in `after`
CorrectArguments ==
  {[f |-> "parse_quiz correct", done |-> FALSE, after |-> after,
    quiz_text |-> segment(<<L_Q, L_A, L_B, L_C, L_D, S_Correct \o after, L_E>>),
    out |-> [raised |-> FALSE, questions |-> <<>>]] :
      after \in {<<" ", "B">>, <<"B">>, <<" ", "b">>, <<" ", "[", "B", "]">>,
                 <<" ", "(", "c", ")">>, <<" ", " ", "D", " ", " ">>,
                 <<" ", "B", ")", " ", "b">>, <<" ", "A", ":", " ", "x">>,
                 <<" ", "E">>, <<" ", "4">>, <<" ", "c", " ", "D">>,
                 <<>>, <<" ", " ">>, <<":", " ", "B">>}}

ApplyParse ==
  /\ applied.f \in {"parse_quiz", "parse_quiz correct"} /\ ~applied.done
  /\ applied' = [applied EXCEPT !.done = TRUE, !.out = parse_quiz(applied.quiz_text)]
  /\ server_unchanged

\* parse_quiz on one segment and on the same lines in another order; a
\* segment of fewer than MinSegmentLines lines is skipped
MinSegmentLines == 6
L_plain_question == <<"x", "?">>
PermutedArguments ==
  {[f |-> "parse_quiz twice", done |-> FALSE, lines |-> lines, order |-> order,
    out |-> [raised |-> FALSE, questions |-> <<>>],
    out_permuted |-> [raised |-> FALSE, questions |-> <<>>]] :
      lines \in {<<L_Q, L_A, L_B, L_C, L_D, L_Correct("B")>>,
                 <<L_plain_question, L_A, L_B, L_C, L_D, L_Correct("C")>>,
                 <<<<"1", ".", " ", "y">>, L_A, L_B, L_C, L_D, L_Correct("D")>>,
                 <<L_Q, L_A, L_B, L_C, L_Correct("A"), L_E>>,
                 <<L_Q, L_A, L_B, L_C, L_D, S_Correct>>,
                 <<L_Q, <<"A", ")", " ", "a", "?">>, L_B, L_C, L_D, L_Correct("A")>>},
      order \in {p \in [1..MinSegmentLines -> 1..MinSegmentLines] :
                   \A i, j \in 1..MinSegmentLines : p[i] = p[j] => i = j}}

ApplyParsePermuted ==
  /\ applied.f = "parse_quiz twice" /\ ~applied.done
  /\ applied' = [applied EXCEPT
       !.done = TRUE,
       !.out = parse_quiz(segment(applied.lines)),
       !.out_permuted = parse_quiz(segment(permuted(applied.lines, applied.order)))]
  /\ server_unchanged

(***************************************************************************)
(* Specifications                                                          *)
(***************************************************************************)
\* one client, one request at a time: an upload, a chat or a quiz
Next ==
  \/ req[1].pc = "idle" /\ UploadStore(DocumentTexts)
  \/ UploadSummarize(SummaryAnswers)
  \/ upload.pc = "idle" /\ ChatBegin(1, ChatQuestions)
  \/ ChatReadIndex(1)
  \/ ChatEnsureIndex(1)
  \/ ChatAnswer(1)
  \/ upload.pc = "idle" /\ QuizBegin(1, IncomingSummaries)
  \/ QuizGround(1)
  \/ QuizGenerate(1, QuizAnswers)
  \/ QuizRetryReminder(1, QuizAnswers)
  \/ QuizRetryExpanded(1, QuizAnswers)
  \/ QuizFinalize(1)
  \/ Respond(1)

Spec == Init /\ [][Next]_vars

\* requests running side by side in the slots
NextConcurrent ==
  \/ UploadStore({DocShort})
  \/ UploadSummarize({GenFail, GenOk(Sum3)})
  \/ \E r \in Slots :
       \/ ChatBegin(r, {Q_ok})
       \/ ChatReadIndex(r)
       \/ ChatEnsureIndex(r)
       \/ ChatAnswer(r)
       \/ QuizBegin(r, {<<>>, SumMixed})
       \/ QuizGround(r)
       \/ QuizGenerate(r, {GenFail, GenOk(R1)})
       \/ QuizRetryReminder(r, {GenFail, GenOk(R1)})
       \/ QuizRetryExpanded(r, {GenFail, GenOk(R1)})
       \/ QuizFinalize(r)
       \/ Respond(r)

SpecConcurrent == Init /\ [][NextConcurrent]_vars

\* the functions of the program, each applied once to arguments of its own
InitFunctions ==
  /\ InitServer
  /\ applied \in RetrieveArguments \cup ChunkArguments \cup ValidateArguments
                    \cup ParseArguments \cup PermutedArguments
                    \cup CorrectArguments
NextFunctions ==
  \/ ApplyRetrieve
  \/ ApplyChunk
  \/ ApplyValidate
  \/ ApplyParse
  \/ ApplyParsePermuted
SpecFunctions == InitFunctions /\ [][NextFunctions]_vars

(***************************************************************************)
(* Properties                                                              *)
(***************************************************************************)
QuizSlots == {r \in Slots : req[r].kind = "quiz"}
\* every call of the request was answered and its answer parsed
all_parsed(q) == Len(q.calls) >= 1 /\ Len(q.counts) = Len(q.calls)
last_count(q) == q.counts[Len(q.counts)]

\* C1: a quiz request issues at most three generation calls, and once the
\* third answer has been parsed it is at its final step or has ended
C1_AtMostThreeCalls ==
  \A r \in QuizSlots :
     /\ Len(req[r].calls) <= 3
     /\ Len(req[r].calls) = 3 => req[r].pc \in {"finalize", "done"}
C1_Witness ==
  \E r \in QuizSlots :
     Len(req[r].calls) = 3 /\ Len(req[r].counts) = 3 /\ req[r].pc = "done"

\* C2: with fewer than 3 lines out of the Summary Filter (its fallback
\* included) the request has ended in InsufficientContent without any
\* generation call
C2_InsufficientBeforeAnyCall ==
  \A r \in QuizSlots :
     (req[r].grounded /\ Len(req[r].lines) < 3) =>
        /\ req[r].pc = "done"
        /\ req[r].outcome = "insufficient_content"
        /\ req[r].calls = <<>>
C2_Witness ==
  \E r \in QuizSlots :
     /\ req[r].lines = <<Cit_doi, Cit_name>>
     /\ req[r].outcome = "insufficient_content"

\* C3 (as claimed): every question of a successful quiz response has a
\* non-empty text, the four options A-D each with non-empty text, and a
\* correct letter among A-D
field_validations(question) ==
  /\ question.question # <<>>
  /\ DOMAIN question.options = Letters
  /\ \A k \in DOMAIN question.options : question.options[k] # <<>>
  /\ question.correct \in {<<k>> : k \in Letters}
C3_ReturnedQuestionsValid ==
  \A r \in QuizSlots :
     req[r].outcome = "ok" =>
        \A i \in 1..Len(req[r].returned) : field_validations(req[r].returned[i])

\* C4: a request whose attempts all went through fails with
\* NoValidQuestions exactly when the last parse gave no question, and
\* otherwise succeeds with the 1 to 3 questions of that parse, in order
C4_NoValidQuestionsIffZero ==
  \A r \in QuizSlots :
     LET q == req[r]
     IN q.pc = "done" =>
          /\ q.outcome = "no_valid_questions" <=> (all_parsed(q) /\ last_count(q) = 0)
          /\ (all_parsed(q) /\ last_count(q) > 0) =>
                /\ q.outcome = "ok"
                /\ Len(q.returned) \in 1..3
                /\ Len(q.returned) = Len(q.questions)
                /\ \A i \in 1..Len(q.returned) :
                      /\ q.returned[i].question = q.questions[i].question
                      /\ q.returned[i].correct = q.questions[i].correct
C4_Witness ==
  \E r \in QuizSlots :
     /\ req[r].outcome = "no_valid_questions"
     /\ req[r].counts = <<1, 2, 0>>

\* C5: first parse below 3, reminder parse k in 1..2, at most 8 filtered
\* lines: two calls in all, and the k questions of the second answer are
\* returned in order with ids 1..k
C5_TwoCallsThenRenumbered ==
  \A r \in QuizSlots :
     LET q == req[r]
     IN (/\ q.pc = "done" /\ Len(q.counts) >= 2
         /\ q.counts[1] < 3 /\ q.counts[2] \in 1..2 /\ Len(q.lines) <= 8) =>
          LET second == parsed_answer[q.calls[2].answer].questions
          IN /\ Len(q.calls) = 2
             /\ q.outcome = "ok"
             /\ Len(q.returned) = q.counts[2]
             /\ Len(second) = q.counts[2]
             /\ \A i \in 1..Len(q.returned) :
                   /\ q.returned[i].id = i
                   /\ q.returned[i].question = second[i].question
                   /\ q.returned[i].correct = second[i].correct
C5_Witness ==
  \E r \in QuizSlots :
     /\ req[r].pc = "done" /\ req[r].counts = <<1, 2>> /\ Len(req[r].lines) <= 8
     /\ [i \in 1..2 |-> req[r].questions[i].id] = <<2, 3>>
     /\ [i \in 1..2 |-> req[r].returned[i].id] = <<1, 2>>

\* C6: the second call is issued exactly when the first answer parsed to
\* fewer than 3 questions, with the context of the first call and the first
\* prompt prefixed with that number
decided_after_first(q) ==
  Len(q.counts) >= 1 /\ (Len(q.calls) >= 2 \/ q.pc \in {"expanded", "finalize", "done"})
C6_ReminderRetry ==
  \A r \in QuizSlots :
     LET q == req[r]
     IN /\ decided_after_first(q) => (Len(q.calls) >= 2 <=> q.counts[1] < 3)
        /\ q.pc = "reminder" => (Len(q.calls) = 1 /\ q.counts = <<q.counts[1]>> /\ q.counts[1] < 3)
        /\ Len(q.calls) >= 2 =>
              /\ q.calls[2].context = q.calls[1].context
              /\ q.calls[2].prompt = retry_prompt(q.counts[1], q.calls[1].prompt)
C6_Witness ==
  \E r \in QuizSlots :
     /\ Len(req[r].calls) = 2 /\ req[r].counts[1] = 1
     /\ req[r].calls[2].prompt[2] = "1"
     /\ Len(req[r].lines) > 3
     /\ req[r].calls[1].context # join(S_newline, req[r].lines)

\* C7: the third call is issued exactly when the second answer parsed to
\* fewer than 3 questions and more than 8 lines were filtered
decided_after_second(q) ==
  Len(q.counts) >= 2 /\ (Len(q.calls) >= 3 \/ q.pc \in {"finalize", "done"})
C7_ExpandedRetry ==
  \A r \in QuizSlots :
     LET q == req[r]
     IN /\ decided_after_second(q) =>
              (Len(q.calls) = 3 <=> (q.counts[2] < 3 /\ Len(q.lines) > 8))
        /\ Len(q.calls) >= 3 => Len(q.counts) >= 2
        /\ q.pc = "expanded" => (Len(q.calls) = 2 /\ Len(q.counts) = 2)
        /\ Len(q.lines) <= 8 => Len(q.calls) <= 2
C7_Witness ==
  \E r \in QuizSlots :
     Len(req[r].calls) = 3 /\ Len(req[r].lines) = 10 /\ req[r].counts[2] = 2

\* C8 (as claimed): the context of the third call is the first 15 lines in
\* the order the Summary Filter returned them
C8_ExpandedContextUnshuffled ==
  \A r \in QuizSlots :
     Len(req[r].calls) = 3 =>
        req[r].calls[3].context = join(S_newline, slice_to(req[r].lines, 15))

\* C9: with requests running side by side, chat and quiz requests build the
\* index of a session at most once, and none reads a missing index
C9_IndexBuiltAtMostOnce ==
  /\ \A s \in DOMAIN ondemand : ondemand[s] <= 1
  /\ \A r \in Slots : ~req[r].saw_missing
C9_Witness ==
  \E r1, r2 \in Slots :
     /\ r1 # r2 /\ req[r1].sid = req[r2].sid
     /\ req[r1].kind = "chat" /\ req[r1].pc = "ensure_index" /\ req[r1].index # None
     /\ req[r2].kind = "quiz" /\ req[r2].pc = "generate" /\ req[r2].index # None

\* C10: a session record holding an index has chunks, and as many
\* embedding rows and index vectors as chunks
C10_IndexAligned ==
  \A s \in DOMAIN document_store :
     LET doc == document_store[s]
     IN dict_get(doc, "index", None) # None =>
          /\ doc.chunks # <<>>
          /\ Len(doc.chunks) = Len(doc.embeddings)
          /\ Len(doc.chunks) = ntotal(doc.index)
C10_Witness ==
  \E s \in DOMAIN document_store, r \in Slots :
     /\ Len(document_store[s].chunks) = 2
     /\ ntotal(document_store[s].index) = 2
     /\ req[r].kind = "chat" /\ req[r].sid = s /\ req[r].outcome = "ok"


\* the text of the caller a request carries towards generation: the question
\* of a chat request, the summary sent with a quiz request
user_text(q) == IF q.kind = "chat" THEN q.question ELSE q.incoming

\* C11 (as claimed): a request that has issued a generation call with text
\* of its caller in the prompt or the context carries text the Input Guard
\* accepts
C11_GuardBeforeGeneration ==
  \A r \in Slots :
     (req[r].calls # <<>> /\ user_text(req[r]) # <<>>) =>
        validate_input(user_text(req[r]), MAX_INPUT_LENGTH).ok

\* C12 (as claimed): a chat or quiz request that has returned has emitted
\* exactly one telemetry record
C12_OneTelemetryRecord ==
  \A r \in Slots : req[r].pc = "done" => Len(req[r].telemetry) = 1


Min(a, b) == IF a <= b THEN a ELSE b
returned_of(f) == applied.f = f /\ applied.done

\* C13 (as claimed): retrieval returns min(top_k, len(chunks)) texts, each
\* of a different chunk, by ascending distance to the query
C13_RetrieveClamped ==
  returned_of("retrieve_relevant_chunks") =>
     LET chunks == applied.chunks
         out == applied.out
         m == Min(applied.top_k, Len(chunks))
         distance(i) == l2(encode_one(chunks[i]), encode_one(applied.query))
     IN /\ Len(out) = m
        /\ \E pos \in [1..m -> 1..Len(chunks)] :
              /\ \A r1, r2 \in 1..m : pos[r1] = pos[r2] => r1 = r2
              /\ \A r \in 1..m : out[r] = chunks[pos[r]]
              /\ \A r \in 1..(m - 1) : distance(pos[r]) <= distance(pos[r + 1])


\* C14 (as claimed): chunk_text with chunk_size <= overlap ends in an error
C14_NonPositiveStrideRejected ==
  (returned_of("chunk_text") /\ applied.chunk_size <= applied.overlap) =>
     applied.out.raised

\* a chunk_text call within the contract chunk_size > overlap >= 0
in_contract == applied.chunk_size > applied.overlap /\ applied.overlap >= 0
ceil_div(a, b) == (a + b - 1) \div b
short_document ==
  /\ returned_of("chunk_text") /\ in_contract
  /\ Len(applied.words) >= 1 /\ Len(applied.words) < applied.chunk_size

\* C15 (as claimed): a document of at least one word and fewer than
\* chunk_size words gives exactly one chunk, holding all the words
C15_ShortDocumentOneChunk ==
  short_document =>
     /\ ~applied.out.raised
     /\ Len(applied.out.chunks) = 1
     /\ applied.out.chunks[1] = join(SP, applied.words)

\* C15 (amended): of such a document the first chunk holds all the words,
\* and it is the only chunk exactly when the document has at most
\* chunk_size - overlap words; otherwise the chunks that follow repeat words
\* of the first
C15_ShortDocumentFirstChunk ==
  short_document =>
     LET chunks == applied.out.chunks
         step == applied.chunk_size - applied.overlap
     IN /\ ~applied.out.raised
        /\ Len(chunks) = ceil_div(Len(applied.words), step)
        /\ chunks[1] = join(SP, applied.words)
        /\ Len(chunks) = 1 <=> Len(applied.words) <= step
        /\ \A k \in 2..Len(chunks) :
              chunks[k] = join(SP, slice_from(applied.words, (k - 1) * step))
C15_Witness ==
  /\ short_document
  /\ applied.text # join(SP, applied.words)
  /\ Len(applied.words) = 3 /\ applied.chunk_size = 4 /\ applied.overlap = 3
  /\ Len(applied.out.chunks) = 3

RECURSIVE concat_from(_, _)
concat_from(xs, i) == IF i > Len(xs) THEN <<>> ELSE xs[i] \o concat_from(xs, i + 1)

\* C16: within the contract chunk_text gives ceil(W / (S - O)) chunks, chunk
\* k (from 0) being the words k*(S-O) up to k*(S-O)+S joined by single
\* blanks, and the first S-O words of the chunks in a row are the document
C16_ChunkCountAndWindows ==
  (returned_of("chunk_text") /\ in_contract) =>
     LET chunks == applied.out.chunks
         words == applied.words
         step == applied.chunk_size - applied.overlap
         window(k) == SubSeq(words, k * step + 1,
                             Min(k * step + applied.chunk_size, Len(words)))
         heads == [k \in 1..Len(chunks) |-> slice_to(window(k - 1), step)]
     IN /\ ~applied.out.raised
        /\ Len(chunks) = ceil_div(Len(words), step)
        /\ \A k \in 0..(Len(chunks) - 1) : chunks[k + 1] = join(SP, window(k))
        /\ concat_from(heads, 1) = words
C16_Witness ==
  /\ returned_of("chunk_text") /\ in_contract
  /\ applied.text # join(SP, applied.words)
  /\ Len(applied.words) = 5 /\ applied.chunk_size = 3 /\ applied.overlap = 1
  /\ Len(applied.out.chunks) = 3


\* a text of whitespace only; a text holding a deny-list phrase in some casing
is_blank(text) == \A i \in 1..Len(text) : text[i] \in WS
has_phrase(text) ==
  \E k \in 1..Len(PROMPT_INJECTION_PATTERNS) :
     LET phrase == PROMPT_INJECTION_PATTERNS[k]
     IN \E i \in 1..(Len(text) - Len(phrase) + 1) :
           \A j \in 1..Len(phrase) : lower_char(text[i + j - 1]) = phrase[j]

\* C17: validate_input gives the reason of the first failing rule in the
\* order empty, length, injection, and accepts every other text
C17_FirstFailingRule ==
  returned_of("validate_input") =>
     LET text == applied.text
         reason == IF is_blank(text) THEN "empty"
                   ELSE IF Len(text) > applied.max_length THEN "length"
                   ELSE IF has_phrase(text) THEN "injection"
                   ELSE "none"
     IN applied.out = [ok |-> reason = "none", reason |-> reason]
C17_Witness ==
  /\ returned_of("validate_input")
  /\ applied.text = T_REACT /\ applied.max_length = MaxLength
  /\ applied.out.reason = "length"

\* C18: a non-blank text without deny-list phrase is accepted with exactly
\* max_length characters and rejected for its length with max_length + 1
C18_LengthBoundary ==
  (returned_of("validate_input") /\ ~is_blank(applied.text) /\ ~has_phrase(applied.text)) =>
     /\ Len(applied.text) = applied.max_length => applied.out.ok
     /\ Len(applied.text) = applied.max_length + 1 =>
           (~applied.out.ok /\ applied.out.reason = "length")
C18_Witness ==
  /\ returned_of("validate_input")
  /\ applied.max_length = MAX_INPUT_LENGTH
  /\ Len(applied.text) = MAX_INPUT_LENGTH
  /\ ~is_blank(applied.text) /\ ~has_phrase(applied.text)
  /\ applied.out.ok


\* C19: of three segments in the format asked for, parse_quiz gives one
\* question for each segment with its four options, in segment order, with
\* the correct letter and the options A-D written, and none for a segment
\* lacking an option
C19_ParseWellFormed ==
  returned_of("parse_quiz") =>
     LET shapes == applied.shapes
         complete == SelectSeq(<<1, 2, 3>>, LAMBDA i : shapes[i].lacking = "none")
         questions == applied.out.questions
     IN /\ ~applied.out.raised
        /\ Len(questions) = Len(complete)
        /\ \A j \in 1..Len(questions) :
              LET shape == shapes[complete[j]]
              IN /\ questions[j].id = complete[j]
                 /\ questions[j].correct = <<shape.correct>>
                 /\ DOMAIN questions[j].options = Letters
                 /\ \A k \in Letters : questions[j].options[k] = option_of(shape, k)
                 /\ questions[j].question = question_of(shape)
                 /\ questions[j].explanation = explanation_of(shape)
C19_Witness ==
  /\ returned_of("parse_quiz")
  /\ applied.shapes[1].form = "ordinal"
  /\ applied.shapes[2].lacking = "D"
  /\ applied.shapes[3].lacking = "none"
  /\ Len(applied.out.questions) = 2
  /\ applied.out.questions[2].id = 3


\* C20 (as claimed): the lines of a segment in any other order parse to the
\* same question or the same rejection
C20_LineOrderIndependent ==
  returned_of("parse_quiz twice") => applied.out_permuted = applied.out

\* a segment (the first of its answer) where at most one line can be taken
\* as the question and each other prefix starts at most one line
question_candidate(line) ==
  \/ startswith(line, <<"Q", ":">>)
  \/ startswith(line, <<"1", ".">>)
  \/ \E i \in 1..Len(line) : line[i] = "?"
OtherPrefixes ==
  {<<k, ")">> : k \in Letters} \cup {S_Correct, S_Explanation}
order_free(lines) ==
  /\ Cardinality({i \in 1..Len(lines) : question_candidate(lines[i])}) <= 1
  /\ \A prefix \in OtherPrefixes :
        Cardinality({i \in 1..Len(lines) : startswith(lines[i], prefix)}) <= 1

\* C20 (amended): the lines of such a segment in any other order parse to
\* the same question or the same rejection
C20_LineOrderIndependentWhenUnambiguous ==
  (returned_of("parse_quiz twice") /\ order_free(applied.lines)) =>
     applied.out_permuted = applied.out
C20_Witness ==
  /\ returned_of("parse_quiz twice") /\ order_free(applied.lines)
  /\ applied.order[1] = MinSegmentLines /\ applied.order[MinSegmentLines] = 1
  /\ Len(applied.out_permuted.questions) = 1
  /\ applied.out_permuted.questions[1].question = L_plain_question


\* C21 (as claimed): the correct letter of a 'Correct:' line is the first
\* uppercase A-D character after the colon, whatever comes before it; a
\* line with no uppercase A-D after the colon gives no question
C21_CorrectFirstUppercaseLetter ==
  returned_of("parse_quiz correct") =>
     LET found == SelectSeq(applied.after, LAMBDA c : c \in Letters)
         questions == applied.out.questions
     IN IF found = <<>> THEN questions = <<>>
        ELSE /\ ~applied.out.raised
             /\ Len(questions) = 1
             /\ questions[1].correct = <<found[1]>>

\* C21 (amended): the correct letter is the first non-whitespace character
\* between the colon and the next colon, taken in upper case; the segment
\* gives a question only when that letter is A-D, so a lowercase a-d is
\* taken as the answer and any other character before the letter rejects
\* the segment
C21_CorrectFirstCharacterUppercased ==
  returned_of("parse_quiz correct") =>
     LET field == strip(split(applied.after, S_colon)[1])
         questions == applied.out.questions
     IN field # <<>> =>
          /\ ~applied.out.raised
          /\ IF upper_char(field[1]) \in Letters
             THEN /\ Len(questions) = 1
                  /\ questions[1].correct = <<upper_char(field[1])>>
             ELSE questions = <<>>
C21_Witness ==
  /\ returned_of("parse_quiz correct")
  /\ applied.after = <<" ", "b">>
  /\ Len(applied.out.questions) = 1
  /\ applied.out.questions[1].correct = <<"B">>


\* C22: the grounding text of a quiz request is the summary it carries when
\* that is non-empty, else the summary cached in its session when that is
\* non-empty, else the five chunks retrieved for 'key concepts overview'
\* joined by newlines; the index is read for the retrieval only when both
\* summaries are empty, and no generation call has been issued when the
\* grounding text is there
C22_GroundingPrecedence ==
  \A r \in QuizSlots :
     req[r].grounded =>
        LET doc == document_store[req[r].sid]
            cached == IF "summary" \in DOMAIN doc THEN doc.summary ELSE <<>>
            retrieved == req[r].index # None
        IN /\ req[r].incoming # <<>> =>
                req[r].summary_text = req[r].incoming /\ ~retrieved
           /\ (req[r].incoming = <<>> /\ cached # <<>>) =>
                req[r].summary_text = cached /\ ~retrieved
           /\ (req[r].incoming = <<>> /\ cached = <<>>) =>
                /\ retrieved
                /\ req[r].summary_text =
                     join(S_newline,
                          retrieve_relevant_chunks(
                            S_key_concepts_overview, doc.chunks,
                            build_vector_index(doc.chunks).index, 5))
           /\ req[r].pc = "generate" => req[r].calls = <<>>
C22_Witness ==
  \E r \in QuizSlots :
     /\ req[r].grounded /\ req[r].pc = "generate"
     /\ req[r].incoming = <<>>
     /\ "summary" \notin DOMAIN document_store[req[r].sid]
     /\ req[r].index # None
     /\ req[r].summary_text # <<>>
     /\ req[r].calls = <<>>


\* C23: the lines out of the Summary Filter are, in the order of the text,
\* the trimmed non-empty lines that match no citation pattern and have at
\* most 3 commas; only when there is none of them they are the first 8
\* trimmed non-empty lines, and with fewer than 3 of those the request
\* ends in InsufficientContent
C23_SummaryFilter ==
  \A r \in QuizSlots :
     req[r].grounded =>
        LET nonempty == stripped_nonempty(split(req[r].summary_text, S_newline))
            kept == SelectSeq(nonempty,
                              LAMBDA s : /\ ~matches_bib_pattern(s)
                                         /\ count_char(s, ",") <= 3)
        IN /\ kept # <<>> => req[r].lines = kept
           /\ kept = <<>> =>
                /\ req[r].lines = SubSeq(nonempty, 1, Min(8, Len(nonempty)))
                /\ (req[r].outcome = "insufficient_content") = (Len(nonempty) < 3)
C23_Witness ==
  \E r \in QuizSlots :
     /\ req[r].grounded /\ req[r].pc = "generate"
     /\ Len(stripped_nonempty(split(req[r].summary_text, S_newline))) = 9
     /\ Len(req[r].lines) = 8
     /\ \A i \in 1..8 : matches_bib_pattern(req[r].lines[i])


\* C24 (as claimed): parse_quiz returns a list of questions for every answer
\* of the backend and never raises, so a request whose calls were all
\* answered does not end in an error
C24_ParseTotal ==
  \A r \in QuizSlots :
     \A i \in 1..Len(req[r].calls) :
        LET answer == req[r].calls[i].answer
        IN answer.ok =>
             /\ ~parsed_answer[answer].raised
             /\ (i = Len(req[r].calls) /\ req[r].pc = "done") =>
                   req[r].outcome # "error"


\* C25: the questions a request holds are those parsed from its most recent
\* answer alone, whatever earlier answers gave: a request whose answers
\* were all parsed ends in NoValidQuestions exactly when the last answer
\* gave no question, and otherwise returns the first 3 questions of the
\* last answer, in order
C25_LastResponseOnly ==
  \A r \in QuizSlots :
     LET q == req[r]
     IN /\ Len(q.counts) >= 1 =>
             q.questions = parsed_answer[q.calls[Len(q.counts)].answer].questions
        /\ (q.pc = "done" /\ all_parsed(q)) =>
             LET last == parsed_answer[q.calls[Len(q.calls)].answer].questions
             IN /\ (q.outcome = "no_valid_questions") = (last = <<>>)
                /\ last # <<>> =>
                     /\ q.outcome = "ok"
                     /\ Len(q.returned) = Min(3, Len(last))
                     /\ \A i \in 1..Len(q.returned) :
                           /\ q.returned[i].question = last[i].question
                           /\ DOMAIN q.returned[i].options = DOMAIN last[i].options
                           /\ q.returned[i].correct = last[i].correct
C25_Witness ==
  \E r \in QuizSlots :
     /\ req[r].pc = "done" /\ req[r].outcome = "ok"
     /\ req[r].counts = <<2, 1>>
     /\ parsed_answer[req[r].calls[1].answer].questions[1].correct = <<"B">>
     /\ Len(req[r].returned) = 1
     /\ req[r].returned[1].correct = <<"D">>

====
